---- MODULE Spec2Model ----
(***************************************************************************)
(* The two-stage mask pipeline of the repository.                          *)
(*                                                                         *)
(*   stage 1  src/lambdas/trigger_sagemaker/app.py  (Mask Request Handler) *)
(*   stage 2  src/infra/.aws-sam/build/ApplyMasksFunction/app.py           *)
(*            (Mask Application Handler)                                   *)
(*                                                                         *)
(* Strings are sequences of one-character strings, so that key derivation, *)
(* percent-decoding and the suffix filter are computed, not assumed.       *)
(* The object store is one function from <<bucket, key>> to the stored     *)
(* object [body, ctype].  Every handler invocation is a slot holding the   *)
(* handler's position (pc), its loop counter and its local variables; one  *)
(* action is one call of the handler to an external service together with  *)
(* the local statements around it.  Any call to an external service may    *)
(* raise; an exception leaves the handler (there is no try/except in       *)
(* either handler) and ends the invocation.                                *)
(*                                                                         *)
(* Stage 1 never reads the store and stage 2 never writes what stage 1     *)
(* writes, so the stages are coupled through the mask container alone.     *)
(* The invocations of stage 2 start once the started invocations of stage  *)
(* 1 have ended (returned or raised, after any number of their writes):    *)
(* stage 2 then meets every content of the mask container stage 1 can      *)
(* leave or pass through, and reads it unchanged during one invocation.    *)
(* An ended invocation of stage 1 keeps its frame for inspection until     *)
(* stage 1 is over; past1 then remembers what the pipeline needs of it.    *)
(***************************************************************************)
EXTENDS Integers, Sequences, FiniteSets, TLC

(***************************************************************************)
(* Bounds of the model.                                                    *)
(***************************************************************************)
\* concurrent or successive invocations of the stage 1 handler
NumInv1 == 2
\* concurrent or successive invocations of the stage 2 handler
NumInv2 == 2
\* the largest number of records in one event
MaxBatch == 2
\* the notifications delivered to the invocations of one stage, in all
MaxDeliveries == 2
\* the longest key of an uploaded object in SpecKeys
MaxKeyLen == 3

Inv1 == 1..NumInv1
Inv2 == 1..NumInv2

(***************************************************************************)
(* Strings.                                                                *)
(***************************************************************************)
RECURSIVE SeqsUpTo(_, _)
SeqsUpTo(S, n) ==
    IF n = 0 THEN {<<>>}
    ELSE LET shorter == SeqsUpTo(S, n - 1)
         IN  shorter \cup {Append(s, c) : s \in shorter, c \in S}

endswith(s, suffix) ==
    /\ Len(suffix) <= Len(s)
    /\ SubSeq(s, Len(s) - Len(suffix) + 1, Len(s)) = suffix

Contains(s, sub) ==
    \E i \in 1..(Len(s) - Len(sub) + 1) : SubSeq(s, i, i + Len(sub) - 1) = sub

\* str.replace("..", ""): occurrences are found left to right, without overlap
RECURSIVE RemoveDotDot(_)
RemoveDotDot(s) ==
    IF Len(s) < 2 THEN s
    ELSE IF s[1] = "." /\ s[2] = "."
         THEN RemoveDotDot(SubSeq(s, 3, Len(s)))
         ELSE <<s[1]>> \o RemoveDotDot(Tail(s))

\* the hexadecimal digits the modelled keys use
HexDigits == {"2", "5", "B"}

\* the character of the byte written %hl, decoded as UTF-8 with
\* errors="replace": a byte from 0x80 on, alone, is no UTF-8 and becomes
\* U+FFFD
HexChar(h, l) ==
    CASE h = "2" /\ l = "2" -> "\""
      [] h = "2" /\ l = "5" -> "%"
      [] h = "2" /\ l = "B" -> "+"
      [] h = "5" /\ l = "2" -> "R"
      [] h = "5" /\ l = "5" -> "U"
      [] h = "5" /\ l = "B" -> "["
      [] OTHER -> "U+FFFD"

\* urllib.parse.unquote: %XX with two hexadecimal digits is decoded, any
\* other % is kept
RECURSIVE unquote(_)
unquote(s) ==
    IF s = <<>> THEN <<>>
    ELSE IF /\ s[1] = "%"
            /\ Len(s) >= 3
            /\ s[2] \in HexDigits
            /\ s[3] \in HexDigits
         THEN <<HexChar(s[2], s[3])>> \o unquote(SubSeq(s, 4, Len(s)))
         ELSE <<s[1]>> \o unquote(Tail(s))

PlusToSpace(s) == [i \in 1..Len(s) |-> IF s[i] = "+" THEN " " ELSE s[i]]

\* a decoding of the %XX escapes alone
unquote_plus_NoPlus(s) == unquote(s)

\* urllib.parse.unquote_plus: "+" becomes a space, then unquote
unquote_plus(s) == unquote(PlusToSpace(s))

\* The storage service URL-escapes the key of a notification: the inverse of
\* unquote_plus on the characters decoded keys of the model hold.
QuoteChar(c) ==
    CASE c = " " -> <<"+">>
      [] c = "+" -> <<"%", "2", "B">>
      [] c = "%" -> <<"%", "2", "5">>
      [] c = "\"" -> <<"%", "2", "2">>
      [] OTHER -> <<c>>

RECURSIVE quote_plus(_)
quote_plus(s) ==
    IF s = <<>> THEN <<>> ELSE QuoteChar(Head(s)) \o quote_plus(Tail(s))

(***************************************************************************)
(* Configuration: the environment defaults of the two handlers.            *)
(***************************************************************************)
MASK_BUCKET == "mask-bucket"
OUTPUT_BUCKET == "output-bucket"
MASK_PREFIX == <<"m", "a", "s", "k", "s", "/">>
METADATA_SUFFIX == <<".", "j", "s", "o", "n">>
MASK_SUFFIX == <<".", "p", "n", "g">>
THUMBNAIL_MASK_PREFIX ==
    <<"t", "h", "u", "m", "b", "n", "a", "i", "l", "-", "m", "a", "s", "k", "s", "/">>
PROCESSED_PREFIX == <<"p", "r", "o", "c", "e", "s", "s", "e", "d", "/">>
THUMBNAIL_PREFIX == <<"t", "h", "u", "m", "b", "n", "a", "i", "l", "s", "/">>
MASK_METADATA_SUFFIX == <<".", "j", "s", "o", "n">>
DefaultThumbnailSize == <<512, 512>>

\* the containers uploads arrive in
SourceBuckets == {"upload-bucket"}

\* the keys objects are uploaded under in the pipeline: a plain key, a key
\* the storage service escapes in its notifications, and that key with a
\* traversal sequence
SourceKeys == {<<"a">>, <<"+">>, <<"+", ".", ".">>}

(***************************************************************************)
(* Stage 1: key derivation and the values the handler computes.            *)
(***************************************************************************)
\* a derivation that keeps the key as it is
_mask_key_Unsanitized(prefix, original_key, suffix) ==
    prefix \o original_key \o suffix

\* lines 37-39
_mask_key(prefix, original_key, suffix) ==
    LET sanitized == RemoveDotDot(original_key)
    IN  prefix \o sanitized \o suffix

\* the image stored at a source object
SourceImage(bucket, key) == <<"image", bucket, key>>

\* an image as stored bytes, and back (Image.save / Image.open)
EncodeImage(image) == <<"bytes", image>>
IsImageBytes(body) == Len(body) = 2 /\ body[1] = "bytes"
DecodeImage(body) == body[2]

\* serve.py: to_base64_png, and the handler's _decode_image
to_base64_png(image) == <<"base64", EncodeImage(image)>>
_decode_image(data) == data[2]

\* serve.py: the size of the thumbnail the masks were generated for
GeneratedThumbnailSize == <<512, 384>>

\* serve.py invoke(): the response for a source object.  The gateway is
\* deterministic per source object.
InferenceResponse(bucket, key) ==
    [mask_png |-> to_base64_png(<<"mask", bucket, key>>),
     thumbnail_mask_png |-> to_base64_png(<<"thumbnail_mask", bucket, key>>),
     thumbnail_size |-> GeneratedThumbnailSize]

\* What one call of the endpoint can give the handler: the call raises
\* ("error"), or the response lacks the named field, or it is complete
\* ("none" is missing).
InferOutcomes == {"error", "mask_png", "thumbnail_mask_png", "thumbnail_size",
                  "none"}

\* the parsed response (line 57): the fields that are there
ParsedResponse(bucket, key, missing) ==
    LET full == InferenceResponse(bucket, key)
    IN  [f \in (DOMAIN full) \ {missing} |-> full[f]]

\* the characters of the keys of SpecKeys, and its keys
KeyChars == {"a", ".", "/", "+", "%", " "}
AllKeys == SeqsUpTo(KeyChars, MaxKeyLen) \ {<<>>}

(***************************************************************************)
(* State.                                                                  *)
(***************************************************************************)
VARIABLES
    store,      \* the object store: <<bucket, key>> -> [body, ctype]
    s1,         \* the invocations of the stage 1 handler
    s2,         \* the invocations of the stage 2 handler
    past1,      \* what is remembered of stage 1 once it is over
    boot,       \* the run of the bootstrap script wire_local_events.py
    img         \* one call of _apply_mask: its arguments and its result

vars == <<store, s1, s2, past1, boot, img>>

\* the variables of the pipeline, and the others
pipe == <<store, s1, s2, past1>>
aux == <<boot, img>>

Exists(bucket, key) == <<bucket, key>> \in DOMAIN store

\* a put that keeps an object already there and writes beside it
put_object_Versioned(st, Bucket, Key, Body, ContentType) ==
    LET at == IF <<Bucket, Key>> \in DOMAIN st THEN Key \o <<"~">> ELSE Key
    IN  (<<Bucket, at>> :> [body |-> Body, ctype |-> ContentType]) @@ st

\* s3.put_object: the object is created or overwritten
put_object(st, Bucket, Key, Body, ContentType) ==
    (<<Bucket, Key>> :> [body |-> Body, ctype |-> ContentType]) @@ st

\* one call of an external service, as the handler issued it
Call(op, bucket, key, body, ctype) ==
    [op |-> op, bucket |-> bucket, key |-> key, body |-> body, ctype |-> ctype]

Range(seq) == {seq[p] : p \in 1..Len(seq)}

RECURSIVE SumLen(_, _)
SumLen(slots, S) ==
    IF S = {} THEN 0
    ELSE LET x == CHOOSE y \in S : TRUE
         IN  Len(slots[x].batch) + SumLen(slots, S \ {x})

\* the notifications delivered so far to the invocations `slots`
Delivered(slots) == SumLen(slots, DOMAIN slots)

\* An invocation: status (idle, running, done: the handler returned, failed:
\* it raised), pc (the call it is at), len (the records of its event), idx
\* (the records it has finished), batch (the records it has taken so far),
\* the handler's local variables, and ops (the calls that returned while it
\* handled the record it is at, or the last one).
Idle1 ==
    [status |-> "idle", pc |-> "infer", len |-> 0, idx |-> 0, batch |-> <<>>,
     bucket |-> "", key |-> <<>>, result |-> <<>>, mask_bytes |-> <<>>,
     thumbnail_mask_bytes |-> <<>>, thumbnail_size |-> <<>>, ops |-> <<>>,
     retries |-> {}]

Idle2 ==
    [status |-> "idle", pc |-> "get_metadata", len |-> 0, idx |-> 0,
     batch |-> <<>>, mask_bucket |-> "", key |-> <<>>, metadata |-> <<>>,
     original_image |-> <<>>, mask_image |-> <<>>,
     thumbnail_mask_image |-> <<>>, ops |-> <<>>, retries |-> {}]

\* The bootstrap script: pc (where main is), fn (the function it is wiring),
\* the arguments wait_timeout and poll_interval and the monotonic clock now,
\* in tenths of a second, the locals deadline and last_error of
\* resolve_function_arn, what it returned (function_arn), the cause of the
\* exception that left main, and for inspection the outcomes of the lookups
\* of the running call of resolve_function_arn, how many of them started
\* with the clock at or past the deadline (late), and the outcomes of
\* add_permission that ensure_permission suppressed.
None == <<"None">>
BootIdle ==
    [pc |-> "idle", fn |-> "", wait_timeout |-> 0, poll_interval |-> 0,
     now |-> 0, deadline |-> 0, last_error |-> None, function_arn |-> None,
     cause |-> None, outcomes |-> <<>>, late |-> 0, suppressed |-> {}]

\* no call of _apply_mask
NoCall == [image |-> <<>>, mask |-> <<>>, result |-> <<>>]

PipelineInit ==
    /\ store = <<>>
    /\ s1 = [i \in Inv1 |-> Idle1]
    /\ s2 = [j \in Inv2 |-> Idle2]
    /\ past1 = [over |-> FALSE, acked |-> {}, retried |-> {}]

Init ==
    /\ PipelineInit
    /\ boot = BootIdle
    /\ img = NoCall

(***************************************************************************)
(* Stage 1: handler(event, _context) of trigger_sagemaker/app.py.          *)
(***************************************************************************)
\* a body that writes the correlation record before the two masks
After1_RecordFirst(pc) ==
    CASE pc = "infer" -> "put_metadata"
      [] pc = "put_metadata" -> "put_mask"
      [] pc = "put_mask" -> "put_thumbnail_mask"
      [] pc = "put_thumbnail_mask" -> "infer"

\* the order of the calls in the body of the loop; "infer" is the head of
\* the loop
After1(pc) ==
    CASE pc = "infer" -> "put_mask"
      [] pc = "put_mask" -> "put_thumbnail_mask"
      [] pc = "put_thumbnail_mask" -> "put_metadata"
      [] pc = "put_metadata" -> "infer"

\* the end of the body: the next record, or the return of the handler
EndOfBody1(s) ==
    [s EXCEPT !.pc = "infer", !.idx = @ + 1,
              !.status = IF s.idx + 1 = s.len THEN "done" ELSE "running"]

\* the invocation after a call returned
Continue1(s, call) ==
    LET next == After1(s.pc)
        t == [s EXCEPT !.ops = Append(@, call), !.pc = next]
    IN  IF next # "infer" THEN t ELSE EndOfBody1(t)

\* an exception leaves the handler
Raise1(s) == [s EXCEPT !.status = "failed"]

\* the handler is invoked with an event of n records
Start1(i, n) ==
    /\ s1[i].status = "idle"
    /\ \A h \in Inv1 : h < i => s1[h].status # "idle"
    /\ ~past1.over
    /\ s1' = [s1 EXCEPT ![i] = [Idle1 EXCEPT !.len = n,
                     !.status = IF n = 0 THEN "done" ELSE "running"]]
    /\ UNCHANGED <<store, s2, past1, aux>>

\* the storage service created the object a notification reports
Created(st, bucket, objkey) ==
    IF <<bucket, objkey>> \in DOMAIN st THEN st
    ELSE put_object(st, bucket, objkey,
                    EncodeImage(SourceImage(bucket, objkey)), "image/png")

\* a handler that reads the thumbnail mask with a default
InferRaises_MaskOnly(result) == "mask_png" \notin DOMAIN result

\* lines 60-61: result["mask_png"] and result["thumbnail_mask_png"] raise
\* for a missing field
InferRaises(result) ==
    "mask_png" \notin DOMAIN result \/ "thumbnail_mask_png" \notin DOMAIN result

\* lines 60-62: the fields read from the response
ReadResult(s, result) ==
    [s EXCEPT !.result = result,
              !.mask_bytes = IF "mask_png" \in DOMAIN result
                             THEN _decode_image(result.mask_png) ELSE <<>>,
              !.thumbnail_mask_bytes =
                             IF "thumbnail_mask_png" \in DOMAIN result
                             THEN _decode_image(result.thumbnail_mask_png) ELSE <<>>,
              !.thumbnail_size = IF "thumbnail_size" \in DOMAIN result
                                 THEN result.thumbnail_size
                                 ELSE DefaultThumbnailSize]

\* Bookkeeping: a record is taken after an invocation raised on the same
\* record, with the same response of the endpoint, between two of its puts.
IsRetry1(s) ==
    \E h \in Inv1 :
        /\ s1[h].status = "failed"
        /\ s1[h].pc \in {"put_thumbnail_mask", "put_metadata"}
        /\ s1[h].bucket = s.bucket
        /\ s1[h].key = s.key
        /\ s1[h].thumbnail_size = s.thumbnail_size

\* lines 45-62: the next record of the event (the notification of an object
\* created under objkey), its decoded key, the call of the endpoint and the
\* fields read from its response
Infer1(i, bucket, objkey, outcome) ==
    /\ s1[i].status = "running"
    /\ s1[i].pc = "infer"
    /\ Delivered(s1) < MaxDeliveries
    /\ LET key == unquote_plus(quote_plus(objkey))
           s == [s1[i] EXCEPT !.batch = Append(@, <<bucket, objkey>>),
                              !.bucket = bucket, !.key = key, !.result = <<>>,
                              !.mask_bytes = <<>>, !.thumbnail_mask_bytes = <<>>,
                              !.thumbnail_size = <<>>, !.ops = <<>>]
           call == Call("invoke_endpoint", bucket, key, <<>>, "application/json")
           result == ParsedResponse(bucket, key, outcome)
           read == ReadResult(s, result)
       IN  s1' = [s1 EXCEPT ![i] =
                    IF outcome = "error" THEN Raise1(s)
                    ELSE IF InferRaises(result)
                         THEN Raise1([s EXCEPT !.result = result,
                                               !.ops = Append(@, call)])
                         ELSE Continue1(
                                [read EXCEPT !.retries =
                                    IF IsRetry1(read) THEN @ \cup {<<bucket, objkey>>}
                                    ELSE @],
                                call)]
    /\ store' = Created(store, bucket, objkey)
    /\ UNCHANGED <<s2, past1, aux>>

\* one s3.put_object of the handler, at position `at` of the body
Put1(i, ok, at, Key, Body, ContentType) ==
    /\ s1[i].status = "running"
    /\ s1[i].pc = at
    /\ IF ok
       THEN /\ store' = put_object(store, MASK_BUCKET, Key, Body, ContentType)
            /\ s1' = [s1 EXCEPT ![i] = Continue1(@,
                         Call("put_object", MASK_BUCKET, Key, Body, ContentType))]
       ELSE /\ s1' = [s1 EXCEPT ![i] = Raise1(@)]
            /\ UNCHANGED store
    /\ UNCHANGED <<s2, past1, aux>>

\* a record key with the suffix of the masks
metadata_key_MaskSuffix(s) == _mask_key(MASK_PREFIX, s.key, MASK_SUFFIX)

\* lines 64-66
mask_key(s) == _mask_key(MASK_PREFIX, s.key, MASK_SUFFIX)
thumbnail_mask_key(s) == _mask_key(THUMBNAIL_MASK_PREFIX, s.key, MASK_SUFFIX)
metadata_key(s) == _mask_key(MASK_PREFIX, s.key, METADATA_SUFFIX)

\* lines 86-92
metadata(s) ==
    [source_bucket |-> s.bucket,
     source_key |-> s.key,
     mask_key |-> mask_key(s),
     thumbnail_mask_key |-> thumbnail_mask_key(s),
     thumbnail_size |-> s.thumbnail_size]

\* json.dumps(...).encode("utf-8"), and json.loads
JsonDumps(value) == <<"json", value>>
IsJson(body) == Len(body) = 2 /\ body[1] = "json"
JsonLoads(body) == body[2]

\* lines 68-73
PutMask1(i, ok) ==
    Put1(i, ok, "put_mask", mask_key(s1[i]), s1[i].mask_bytes, "image/png")

\* lines 76-81
PutThumbnailMask1(i, ok) ==
    Put1(i, ok, "put_thumbnail_mask", thumbnail_mask_key(s1[i]),
         s1[i].thumbnail_mask_bytes, "image/png")

\* lines 93-98
PutMetadata1(i, ok) ==
    Put1(i, ok, "put_metadata", metadata_key(s1[i]),
         JsonDumps(metadata(s1[i])), "application/json")

Stage1 ==
    \/ \E i \in Inv1, n \in 0..MaxBatch : Start1(i, n)
    \/ \E i \in Inv1, b \in SourceBuckets, k \in SourceKeys, o \in InferOutcomes :
           Infer1(i, b, k, o)
    \/ \E i \in Inv1, ok \in BOOLEAN : PutMask1(i, ok)
    \/ \E i \in Inv1, ok \in BOOLEAN : PutThumbnailMask1(i, ok)
    \/ \E i \in Inv1, ok \in BOOLEAN : PutMetadata1(i, ok)

(***************************************************************************)
(* The notifications of the mask container.                                *)
(***************************************************************************)
\* the suffix filter of the mask container's subscription
\* (configure_notifications(..., suffix=args.metadata_suffix))
FilterSuffix == <<".", "j", "s", "o", "n">>

\* The subscription emits a notification for every put of a key with the
\* suffix, and a notification may be delivered any number of times.  For a
\* subscription without the suffix filter, every object of the container
\* has one.
Emitted2 ==
    {x[2] : x \in {y \in DOMAIN store :
                     y[1] = MASK_BUCKET /\ endswith(y[2], FilterSuffix)}}

Deliverable2 == {x[2] : x \in {y \in DOMAIN store : y[1] = MASK_BUCKET}}

\* the notifications an invocation that returned has handled
Acked1 == UNION {Range(s1[i].batch) : i \in {h \in Inv1 : s1[h].status = "done"}}
Acked2 == UNION {Range(s2[j].batch) : j \in {h \in Inv2 : s2[h].status = "done"}}

\* Stage 1 is over: no invocation of it is running, and none starts any
\* more.  The frames of its invocations are released.
EndStage1 ==
    /\ ~past1.over
    /\ \A i \in Inv1 : s1[i].status # "running"
    /\ past1' = [over |-> TRUE,
                 acked |-> Acked1,
                 retried |-> UNION {s1[i].retries :
                                i \in {h \in Inv1 : s1[h].status = "done"}}]
    /\ s1' = [i \in Inv1 |-> Idle1]
    /\ UNCHANGED <<store, s2, aux>>

(***************************************************************************)
(* Stage 2: handler(event, _context) of ApplyMasksFunction/app.py.         *)
(***************************************************************************)
\* lines 33-41, with images as values: the image with the mask as its alpha
_apply_mask(image, mask) == <<"apply_mask", image, mask>>

\* lines 81-82: Image.copy() and Image.thumbnail(size, LANCZOS)
Thumbnail(image, size) == <<"thumbnail", image, size>>

\* a save that keeps an output already there and writes beside it
_save_png_Versioned(st, image, bucket, key) ==
    put_object(st, bucket,
               IF <<bucket, key>> \in DOMAIN st THEN key \o <<"~">> ELSE key,
               EncodeImage(image), "image/png")

\* lines 44-49: the store after _save_png
_save_png(st, image, bucket, key) ==
    put_object(st, bucket, key, EncodeImage(image), "image/png")

\* lines 27-30: s3.get_object raises for a missing key, Image.open for a
\* body that is no image
CanLoadImage(bucket, key) ==
    Exists(bucket, key) /\ IsImageBytes(store[<<bucket, key>>].body)
_load_image_from_s3(bucket, key) == DecodeImage(store[<<bucket, key>>].body)

\* a handler that reads the mask key with a default
RequiredFields_NoMaskKey == {"source_bucket", "source_key", "thumbnail_mask_key"}

\* the fields the handler reads with metadata[...] (lines 67-70)
RequiredFields == {"source_bucket", "source_key", "mask_key", "thumbnail_mask_key"}

\* the order of the calls in the body of the loop; "get_metadata" is the
\* head of the loop
After2(pc) ==
    CASE pc = "get_metadata" -> "load_original"
      [] pc = "load_original" -> "load_mask"
      [] pc = "load_mask" -> "load_thumbnail_mask"
      [] pc = "load_thumbnail_mask" -> "save_processed"
      [] pc = "save_processed" -> "save_thumbnail"
      [] pc = "save_thumbnail" -> "get_metadata"

EndOfBody2(s) ==
    [s EXCEPT !.pc = "get_metadata", !.idx = @ + 1,
              !.status = IF s.idx + 1 = s.len THEN "done" ELSE "running"]

Continue2(s, call) ==
    LET next == After2(s.pc)
        t == [s EXCEPT !.ops = Append(@, call), !.pc = next]
    IN  IF next # "get_metadata" THEN t ELSE EndOfBody2(t)

Raise2(s) == [s EXCEPT !.status = "failed"]

Start2(j, n) ==
    /\ s2[j].status = "idle"
    /\ \A h \in Inv2 : h < j => s2[h].status # "idle"
    /\ past1.over
    /\ s2' = [s2 EXCEPT ![j] = [Idle2 EXCEPT !.len = n,
                     !.status = IF n = 0 THEN "done" ELSE "running"]]
    /\ UNCHANGED <<store, s1, past1, aux>>

\* lines 55-57: the next record of the event and its decoded key
Receive2(s, notification) ==
    [s EXCEPT !.batch = Append(@, notification),
              !.mask_bucket = MASK_BUCKET,
              !.key = unquote_plus(quote_plus(notification)),
              !.metadata = <<>>, !.original_image = <<>>,
              !.mask_image = <<>>, !.thumbnail_mask_image = <<>>,
              !.ops = <<>>]

AtHead2(j, notification) ==
    /\ s2[j].status = "running"
    /\ s2[j].pc = "get_metadata"
    /\ notification \in Deliverable2
    /\ Delivered(s2) < MaxDeliveries

\* a handler that returns at a key without the suffix
Skip2_Return(j, notification) ==
    /\ AtHead2(j, notification)
    /\ ~endswith(Receive2(s2[j], notification).key, MASK_METADATA_SUFFIX)
    /\ s2' = [s2 EXCEPT ![j] = [Receive2(@, notification) EXCEPT !.status = "done"]]
    /\ UNCHANGED <<store, s1, past1, aux>>

\* lines 55-61: a record whose key does not end with the suffix is skipped
Skip2(j, notification) ==
    /\ AtHead2(j, notification)
    /\ ~endswith(Receive2(s2[j], notification).key, MASK_METADATA_SUFFIX)
    /\ s2' = [s2 EXCEPT ![j] = EndOfBody2(Receive2(@, notification))]
    /\ UNCHANGED <<store, s1, past1, aux>>

\* Bookkeeping: a record is taken after an invocation raised on the same
\* record between its two saves.
IsRetry2(s) ==
    \E h \in Inv2 :
        /\ s2[h].status = "failed"
        /\ s2[h].pc = "save_thumbnail"
        /\ s2[h].key = s.key

\* lines 55-71: the record is read and parsed
GetMetadata2(j, notification, ok) ==
    /\ AtHead2(j, notification)
    /\ LET r == Receive2(s2[j], notification)
           s == [r EXCEPT !.retries = IF IsRetry2(r) THEN @ \cup {notification}
                                      ELSE @]
           there == Exists(s.mask_bucket, s.key)
           body == store[<<s.mask_bucket, s.key>>].body
           call == Call("get_object", s.mask_bucket, s.key, <<>>, "")
       IN  /\ endswith(s.key, MASK_METADATA_SUFFIX)
           /\ IF /\ ok
                 /\ there
                 /\ IsJson(body)
                 /\ RequiredFields \subseteq DOMAIN JsonLoads(body)
              THEN s2' = [s2 EXCEPT ![j] =
                             Continue2([s EXCEPT !.metadata = JsonLoads(body)], call)]
              ELSE s2' = [s2 EXCEPT ![j] = Raise2(s)]
    /\ UNCHANGED <<store, s1, past1, aux>>

\* one _load_image_from_s3 of the handler, at position `at` of the body
Load2(j, ok, at, bucket, key, local) ==
    /\ s2[j].status = "running"
    /\ s2[j].pc = at
    /\ IF ok /\ CanLoadImage(bucket, key)
       THEN s2' = [s2 EXCEPT ![j] = Continue2(
                      [@ EXCEPT ![local] = _load_image_from_s3(bucket, key)],
                      Call("get_object", bucket, key, <<>>, ""))]
       ELSE s2' = [s2 EXCEPT ![j] = Raise2(@)]
    /\ UNCHANGED <<store, s1, past1, aux>>

\* line 73
LoadOriginal2(j, ok) ==
    Load2(j, ok, "load_original", s2[j].metadata.source_bucket,
          s2[j].metadata.source_key, "original_image")

\* line 74
LoadMask2(j, ok) ==
    Load2(j, ok, "load_mask", s2[j].mask_bucket, s2[j].metadata.mask_key,
          "mask_image")

\* line 75
LoadThumbnailMask2(j, ok) ==
    Load2(j, ok, "load_thumbnail_mask", s2[j].mask_bucket,
          s2[j].metadata.thumbnail_mask_key, "thumbnail_mask_image")

\* line 71
thumbnail_size(s) ==
    IF "thumbnail_size" \in DOMAIN s.metadata
    THEN s.metadata.thumbnail_size
    ELSE DefaultThumbnailSize

\* lines 77-78
processed(s) == _apply_mask(s.original_image, s.mask_image)
processed_key(s) == PROCESSED_PREFIX \o s.metadata.source_key

\* lines 81-84
processed_thumbnail(s) ==
    _apply_mask(Thumbnail(s.original_image, thumbnail_size(s)),
                s.thumbnail_mask_image)
\* a thumbnail key under the prefix of the processed images
thumbnail_key_ProcessedPrefix(s) == PROCESSED_PREFIX \o s.metadata.source_key

thumbnail_key(s) == THUMBNAIL_PREFIX \o s.metadata.source_key

\* one _save_png of the handler, at position `at` of the body
Save2(j, ok, at, image, key) ==
    /\ s2[j].status = "running"
    /\ s2[j].pc = at
    /\ IF ok
       THEN /\ store' = _save_png(store, image, OUTPUT_BUCKET, key)
            /\ s2' = [s2 EXCEPT ![j] = Continue2(@,
                         Call("put_object", OUTPUT_BUCKET, key,
                              EncodeImage(image), "image/png"))]
       ELSE /\ s2' = [s2 EXCEPT ![j] = Raise2(@)]
            /\ UNCHANGED store
    /\ UNCHANGED <<s1, past1, aux>>

\* lines 77-79
SaveProcessed2(j, ok) ==
    Save2(j, ok, "save_processed", processed(s2[j]), processed_key(s2[j]))

\* lines 81-85
SaveThumbnail2(j, ok) ==
    Save2(j, ok, "save_thumbnail", processed_thumbnail(s2[j]), thumbnail_key(s2[j]))

Stage2 ==
    \/ \E j \in Inv2, n \in 0..MaxBatch : Start2(j, n)
    \/ \E j \in Inv2, n \in Deliverable2 : Skip2(j, n)
    \/ \E j \in Inv2, n \in Deliverable2, ok \in BOOLEAN : GetMetadata2(j, n, ok)
    \/ \E j \in Inv2, ok \in BOOLEAN : LoadOriginal2(j, ok)
    \/ \E j \in Inv2, ok \in BOOLEAN : LoadMask2(j, ok)
    \/ \E j \in Inv2, ok \in BOOLEAN : LoadThumbnailMask2(j, ok)
    \/ \E j \in Inv2, ok \in BOOLEAN : SaveProcessed2(j, ok)
    \/ \E j \in Inv2, ok \in BOOLEAN : SaveThumbnail2(j, ok)

Next == Stage1 \/ EndStage1 \/ Stage2

Spec == Init /\ [][Next]_vars

(***************************************************************************)
(* SpecKeys: one upload under any key of AllKeys goes through the pipeline,*)
(* one invocation per stage and no call raising.                           *)
(***************************************************************************)
KeysNext ==
    \/ Start1(1, 1)
    \/ \E b \in SourceBuckets, k \in AllKeys, o \in {"none", "thumbnail_size"} :
           Infer1(1, b, k, o)
    \/ PutMask1(1, TRUE)
    \/ PutThumbnailMask1(1, TRUE)
    \/ PutMetadata1(1, TRUE)
    \/ EndStage1
    \/ Start2(1, 1)
    \/ \E n \in Deliverable2 : Skip2(1, n)
    \/ \E n \in Deliverable2 : GetMetadata2(1, n, TRUE)
    \/ LoadOriginal2(1, TRUE)
    \/ LoadMask2(1, TRUE)
    \/ LoadThumbnailMask2(1, TRUE)
    \/ SaveProcessed2(1, TRUE)
    \/ SaveThumbnail2(1, TRUE)

SpecKeys == Init /\ [][KeysNext]_vars

(***************************************************************************)
(* SpecRecords: the records stage 2 reads need not be the ones stage 1     *)
(* wrote.  Uploads go through stage 1, no call raising; another producer   *)
(* may put a record again without one of its fields; stage 2 runs as in    *)
(* Spec.                                                                   *)
(***************************************************************************)
\* the fields of a record as stage 1 writes it
RecordFields ==
    {"source_bucket", "source_key", "mask_key", "thumbnail_mask_key",
     "thumbnail_size"}

\* the object x of the mask container, a complete record, is put again
\* without its field f
ForeignRecord(x, f) ==
    /\ ~past1.over
    /\ x \in DOMAIN store
    /\ x[1] = MASK_BUCKET
    /\ IsJson(store[x].body)
    /\ LET m == JsonLoads(store[x].body)
       IN  /\ DOMAIN m = RecordFields
           /\ f \in DOMAIN m
           /\ store' = put_object(store, x[1], x[2],
                            JsonDumps([g \in (DOMAIN m) \ {f} |-> m[g]]),
                            "application/json")
    /\ UNCHANGED <<s1, s2, past1, aux>>

RecordsNext ==
    \/ \E i \in Inv1 : Start1(i, 1)
    \/ \E i \in Inv1, b \in SourceBuckets, k \in SourceKeys : Infer1(i, b, k, "none")
    \/ \E i \in Inv1 : PutMask1(i, TRUE)
    \/ \E i \in Inv1 : PutThumbnailMask1(i, TRUE)
    \/ \E i \in Inv1 : PutMetadata1(i, TRUE)
    \/ \E x \in DOMAIN store, f \in RecordFields : ForeignRecord(x, f)
    \/ EndStage1
    \/ Stage2

SpecRecords == Init /\ [][RecordsNext]_vars

(***************************************************************************)
(* The bootstrap script: main() of wire_local_events.py, with              *)
(* ensure_permission and resolve_function_arn.  Times are in tenths of a   *)
(* second.                                                                 *)
(***************************************************************************)
\* the largest --wait-timeout and --poll-interval of the runs
MaxWait == 3
MaxPoll == 2
WaitTimeouts == (0 - 1)..MaxWait
PollIntervals == (0 - 1)..MaxPoll

\* how long a lookup may take, and how long a sleep may last beyond the
\* interval asked for
Delays == {0, 1}

\* what lambda_client.add_permission may do: succeed, raise the conflict of
\* a statement that is there already, or raise anything else
PermissionOutcomes == {"ok", "conflict", "error"}

\* what lambda_client.get_function may do: raise a BotoCoreError or
\* ClientError, answer without Configuration.FunctionArn, answer with an
\* empty one, or answer with the ARN
LookupOutcomes == {"client_error", "no_arn", "empty_arn", "ok"}

\* the ARN the n-th lookup of the function answers with
Arn(fn, n) == <<"arn", fn, n>>
EmptyArn == <<"">>

\* lines 104-105: configuration.get("FunctionArn") of the response
FunctionArn(outcome, fn, n) ==
    CASE outcome = "ok" -> Arn(fn, n)
      [] outcome = "empty_arn" -> EmptyArn
      [] OTHER -> None

\* a test for None alone
Truthy_NotNone(value) == value # None

\* line 106: `if function_arn:`
Truthy(value) == value \notin {None, EmptyArn}

\* a sleep of the interval as it is given
SleepInterval_Raw(poll_interval) == poll_interval

\* line 115: max(poll_interval, 0.1)
SleepInterval(poll_interval) == IF poll_interval > 1 THEN poll_interval ELSE 1

\* the script is started
BootInit ==
    /\ PipelineInit
    /\ img = NoCall
    /\ \E w \in WaitTimeouts, p \in PollIntervals :
          boot = [BootIdle EXCEPT !.pc = "start", !.wait_timeout = w,
                                  !.poll_interval = p]

\* lines 171-176 and 182-187 of main with ensure_permission (lines 64-77,
\* every exception of add_permission is passed over) and the entry of
\* resolve_function_arn (lines 95-96)
EnsurePermission(outcome) ==
    /\ \/ boot.pc = "start"
       \/ boot.pc = "resolved" /\ boot.fn = "trigger"
    /\ boot' = [boot EXCEPT
                  !.pc = "lookup",
                  !.fn = IF boot.pc = "start" THEN "trigger" ELSE "apply",
                  !.suppressed = IF outcome = "ok" THEN @ ELSE @ \cup {outcome},
                  !.deadline = boot.now + boot.wait_timeout,
                  !.last_error = None, !.function_arn = None,
                  !.outcomes = <<>>, !.late = 0]
    /\ UNCHANGED <<pipe, img>>

\* a lookup that remembers the first failure only
Lookup_FirstError(outcome, d) ==
    /\ boot.pc = "lookup"
    /\ LET n == Len(boot.outcomes) + 1
           function_arn == FunctionArn(outcome, boot.fn, n)
           b == [boot EXCEPT !.now = @ + d,
                             !.outcomes = Append(@, outcome),
                             !.late = IF boot.now >= boot.deadline THEN @ + 1 ELSE @]
           error == IF outcome = "client_error" THEN <<"client_error", n>>
                    ELSE <<"missing_arn", n>>
       IN  boot' = IF outcome # "client_error" /\ Truthy(function_arn)
                   THEN [b EXCEPT !.pc = "resolved", !.function_arn = function_arn]
                   ELSE [b EXCEPT !.pc = "check",
                                  !.last_error = IF @ = None THEN error ELSE @]
    /\ UNCHANGED <<pipe, img>>

\* lines 99-110: one lookup, which takes d; it returns the ARN, or leaves
\* its failure in last_error
Lookup(outcome, d) ==
    /\ boot.pc = "lookup"
    /\ LET n == Len(boot.outcomes) + 1
           function_arn == FunctionArn(outcome, boot.fn, n)
           b == [boot EXCEPT !.now = @ + d,
                             !.outcomes = Append(@, outcome),
                             !.late = IF boot.now >= boot.deadline THEN @ + 1 ELSE @]
       IN  boot' = IF outcome = "client_error"
                   THEN [b EXCEPT !.pc = "check",
                                  !.last_error = <<"client_error", n>>]
                   ELSE IF Truthy(function_arn)
                        THEN [b EXCEPT !.pc = "resolved",
                                       !.function_arn = function_arn]
                        ELSE [b EXCEPT !.pc = "check",
                                       !.last_error = <<"missing_arn", n>>]
    /\ UNCHANGED <<pipe, img>>

\* lines 112-113
CheckDeadline ==
    /\ boot.pc = "check"
    /\ boot' = [boot EXCEPT !.pc = IF boot.now >= boot.deadline THEN "raise"
                                   ELSE "sleep"]
    /\ UNCHANGED <<pipe, img>>

\* line 115: the clock advances by the interval slept, or more
Sleep(extra) ==
    /\ boot.pc = "sleep"
    /\ boot' = [boot EXCEPT !.pc = "lookup",
                            !.now = @ + SleepInterval(boot.poll_interval) + extra]
    /\ UNCHANGED <<pipe, img>>

\* lines 117-127: the error, raised from last_error when there is one; it
\* leaves main
RaiseError ==
    /\ boot.pc = "raise"
    /\ boot' = [boot EXCEPT !.pc = "raised", !.cause = boot.last_error]
    /\ UNCHANGED <<pipe, img>>

\* lines 194-206 of main: configure_notifications for the upload container,
\* then for the mask container; an exception leaves main
ConfigureNotifications(ok) ==
    /\ \/ boot.pc = "resolved" /\ boot.fn = "apply"
       \/ boot.pc = "configured_upload"
    /\ boot' = IF ~ok
               THEN [boot EXCEPT !.pc = "raised",
                                 !.cause = <<"put_bucket_notification_configuration">>]
               ELSE [boot EXCEPT !.pc = IF boot.pc = "resolved"
                                        THEN "configured_upload" ELSE "exit"]
    /\ UNCHANGED <<pipe, img>>

BootNext ==
    \/ \E o \in PermissionOutcomes : EnsurePermission(o)
    \/ \E o \in LookupOutcomes, d \in Delays : Lookup(o, d)
    \/ CheckDeadline
    \/ \E extra \in Delays : Sleep(extra)
    \/ RaiseError
    \/ \E ok \in BOOLEAN : ConfigureNotifications(ok)

SpecBoot == BootInit /\ [][BootNext]_vars

\* the script runs: a call that can return does, and so does a sleep
SpecBootFair == SpecBoot /\ WF_vars(BootNext)

(***************************************************************************)
(* Properties.                                                             *)
(***************************************************************************)
(* _apply_mask on pixels.  An image is a sequence of RGBA pixels (its       *)
(* dimensions are its length), a mask a sequence of values of mode "L".     *)
(* numpy computes in float32: a float32 is kept as <<q, s>>, the value      *)
(* q / 2^s with q below 2^Float32Bits, rounded to nearest, ties to even.    *)
(***************************************************************************)
\* the largest value of a channel, and the divisor of line 37
MaxPixel == 255
\* the bits of the significand of np.float32
Float32Bits == 24
\* the half of the significand the product is computed by
HalfBits == Float32Bits \div 2
\* the largest number of pixels of an image
MaxPixels == 2
\* the colours of the pixels
Colours == {<<0, 128, 255>>, <<17, 3, 200>>}

\* round to nearest, ties to even: q with the remainder rem of a division by
\* den left over
RoundEven(q, rem, den) ==
    IF 2 * rem > den \/ (2 * rem = den /\ q % 2 = 1) THEN q + 1 ELSE q

\* the bits of rem / den, from the first 1 on, until q has Float32Bits bits
RECURSIVE DivBits(_, _, _, _)
DivBits(q, rem, s, den) ==
    IF q >= 2^(Float32Bits - 1) THEN <<RoundEven(q, rem, den), s>>
    ELSE IF 2 * rem >= den THEN DivBits(2 * q + 1, 2 * rem - den, s + 1, den)
         ELSE DivBits(2 * q, 2 * rem, s + 1, den)

\* line 37: np.float32(m) / 255.0, for m in 0..MaxPixel
float32_div(m, den) ==
    IF m = 0 THEN <<0, 0>>
    ELSE IF m = den THEN <<2^(Float32Bits - 1), Float32Bits - 1>>
    ELSE DivBits(0, m, 0, den)

\* line 39: a * alpha in float32, a in 0..MaxPixel and alpha = <<q, s>>.  The
\* exact product is hi * 2^HalfBits + lo; d of its bits are beyond the
\* significand and are rounded away.
float32_mul(a, alpha) ==
    LET q == alpha[1]
        H == a * (q \div 2^HalfBits)
        L == a * (q % 2^HalfBits)
        hi == H + (L \div 2^HalfBits)
        lo == L % 2^HalfBits
        d == CHOOSE n \in 0..HalfBits :
                 /\ hi < 2^(HalfBits + n)
                 /\ \A m \in 0..(n - 1) : hi >= 2^(HalfBits + m)
        kept == hi * 2^(HalfBits - d) + (lo \div 2^d)
    IN  <<RoundEven(kept, lo % 2^d, 2^d), alpha[2] - d>>

\* astype("uint8") of a float32 between 0 and MaxPixel: the fraction is cut
astype_uint8(x) ==
    IF x[2] > Float32Bits THEN 0
    ELSE IF x[2] >= 0 THEN x[1] \div 2^x[2]
    ELSE x[1] * 2^(0 - x[2])

\* lines 37-39 for one pixel: the alpha written for the alpha a under the
\* mask value m
MaskedAlpha(a, m) ==
    astype_uint8(float32_mul(a, float32_div(m, MaxPixel)))

\* lines 34-41 for an RGBA image and a mask of mode "L" at its dimensions
\* (convert and resize leave both as they are)
apply_mask(image, mask) ==
    [n \in 1..Len(image) |->
        <<image[n][1], image[n][2], image[n][3],
          MaskedAlpha(image[n][4], mask[n])>>]

\* an image of n pixels: the first of the colour c with the alpha a, the
\* others opaque
ImageOf(n, c, a) ==
    [k \in 1..n |-> <<c[1], c[2], c[3], IF k = 1 THEN a ELSE MaxPixel>>]

\* a mask of n values: the first is m, the others MaxPixel - m
MaskOf(n, m) == [k \in 1..n |-> IF k = 1 THEN m ELSE MaxPixel - m]

MaskInit ==
    /\ PipelineInit
    /\ boot = BootIdle
    /\ \E n \in 1..MaxPixels, c \in Colours, a \in 0..MaxPixel, m \in 0..MaxPixel :
           img = [image |-> ImageOf(n, c, a), mask |-> MaskOf(n, m),
                  result |-> <<>>]

\* one call of _apply_mask
ApplyMask ==
    /\ img.result = <<>>
    /\ img' = [img EXCEPT !.result = apply_mask(img.image, img.mask)]
    /\ UNCHANGED <<pipe, boot>>

MaskNext == ApplyMask

SpecMask == MaskInit /\ [][MaskNext]_vars

(***************************************************************************)
MaskContainer == {x \in DOMAIN store : x[1] = MASK_BUCKET}
OutputContainer == {x \in DOMAIN store : x[1] = OUTPUT_BUCKET}
SourceObjects == {x \in DOMAIN store : x[1] \in SourceBuckets}

\* the correlation records of the mask container
Records == {x \in MaskContainer : IsJson(store[x].body)}

\* the put_object calls among the calls of an invocation
Puts(ops) == SelectSeq(ops, LAMBDA c : c.op = "put_object")

\* the invocation has finished the body of the loop for the record it took
\* last, and has taken no other since
JustFinished(s) == s.idx >= 1 /\ s.idx = Len(s.batch)

\* C1, as the spec states it: a failure on one record of an event leaves
\* the other records of the event to be processed, so an invocation that
\* has ended (returned or raised) has taken every record of its event.
C1_EveryRecordAttempted ==
    /\ \A i \in Inv1 : s1[i].status \in {"done", "failed"}
                           => Len(s1[i].batch) = s1[i].len
    /\ \A j \in Inv2 : s2[j].status \in {"done", "failed"}
                           => Len(s2[j].batch) = s2[j].len

\* C2: whenever a correlation record is in the mask container, the mask
\* object and the thumbnail-mask object it names (the ones of its source
\* key) are in the mask container too, whatever failed between two writes.
C2_RecordImpliesMasks ==
    \A x \in Records :
        LET m == JsonLoads(store[x].body)
        IN  /\ m.mask_key = _mask_key(MASK_PREFIX, m.source_key, MASK_SUFFIX)
            /\ m.thumbnail_mask_key =
                   _mask_key(THUMBNAIL_MASK_PREFIX, m.source_key, MASK_SUFFIX)
            /\ Exists(MASK_BUCKET, m.mask_key)
            /\ IsImageBytes(store[<<MASK_BUCKET, m.mask_key>>].body)
            /\ Exists(MASK_BUCKET, m.thumbnail_mask_key)
            /\ IsImageBytes(store[<<MASK_BUCKET, m.thumbnail_mask_key>>].body)

\* a record is there, and an invocation of stage 1 raised between two of
\* its writes
C2_Witness ==
    /\ Records # {}
    /\ \E i \in Inv1 : /\ s1[i].status = "failed"
                       /\ s1[i].pc \in {"put_thumbnail_mask", "put_metadata"}

\* The invocation i of stage 1 has processed its last record with exactly
\* three puts, all to the mask container, at the keys derived from `base`:
\* the mask, the thumbnail mask and the record, the record naming the
\* decoded source key and the two mask keys; the three objects are in the
\* container.
Stage1WroteAt(i, base) ==
    LET p == Puts(s1[i].ops)
        k1 == MASK_PREFIX \o base \o MASK_SUFFIX
        k2 == THUMBNAIL_MASK_PREFIX \o base \o MASK_SUFFIX
        k3 == MASK_PREFIX \o base \o METADATA_SUFFIX
    IN  /\ Len(p) = 3
        /\ \A n \in 1..3 : p[n].bucket = MASK_BUCKET
        /\ <<p[1].key, p[2].key, p[3].key>> = <<k1, k2, k3>>
        /\ IsJson(p[3].body)
        /\ JsonLoads(p[3].body).source_bucket = s1[i].bucket
        /\ JsonLoads(p[3].body).source_key = s1[i].key
        /\ JsonLoads(p[3].body).mask_key = k1
        /\ JsonLoads(p[3].body).thumbnail_mask_key = k2
        /\ \A n \in 1..3 : /\ Exists(MASK_BUCKET, p[n].key)
                            /\ store[<<MASK_BUCKET, p[n].key>>].body = p[n].body

\* C3, amended: a notification with decoded source key k that stage 1
\* processes successfully is written as exactly three objects of the mask
\* container, at masks/<s>.png, thumbnail-masks/<s>.png and masks/<s>.json,
\* where s is k with every occurrence of ".." removed (left to right); the
\* record has source_key = k itself and names the two mask keys.
C3_KeysOfSanitizedKey ==
    \A i \in Inv1 :
        JustFinished(s1[i]) =>
            /\ Stage1WroteAt(i, RemoveDotDot(s1[i].key))
            /\ s1[i].key = s1[i].batch[s1[i].idx][2]

\* C3, as the spec states it: the three keys hold k itself, for every k
C3_KeysOfDecodedKey ==
    \A i \in Inv1 : JustFinished(s1[i]) => Stage1WroteAt(i, s1[i].key)

\* stage 1 has processed a notification whose key holds ".." and an
\* escaped character
C3_Witness ==
    \E i \in Inv1 :
        /\ JustFinished(s1[i])
        /\ Contains(s1[i].key, <<".", ".">>)
        /\ Contains(s1[i].key, <<"+">>)

\* C8: of the three keys stage 1 writes for a source key only the record
\* key ends with the metadata suffix, and it is the key derived from the
\* source key with the mask prefix and the metadata suffix; so the objects
\* of the mask container that pass the suffix filter of stage 2 are exactly
\* the correlation records.
C8_FilterMatchesRecords ==
    /\ \A i \in Inv1 :
          JustFinished(s1[i]) =>
              LET p == Puts(s1[i].ops)
              IN  /\ Len(p) = 3
                  /\ ~endswith(p[1].key, MASK_METADATA_SUFFIX)
                  /\ ~endswith(p[2].key, MASK_METADATA_SUFFIX)
                  /\ endswith(p[3].key, MASK_METADATA_SUFFIX)
                  /\ p[3].key = _mask_key(MASK_PREFIX, s1[i].key, METADATA_SUFFIX)
                  /\ IsJson(p[3].body)
    /\ \A x \in MaskContainer :
          endswith(x[2], MASK_METADATA_SUFFIX) <=> x \in Records
    /\ Emitted2 = {x[2] : x \in Records}

\* the three objects of a source key are there, and stage 2 has skipped a
\* notification or handled one that passed its filter
C8_Witness ==
    /\ Cardinality(MaskContainer) = 3
    /\ \E j \in Inv2 : /\ JustFinished(s2[j])
                       /\ endswith(s2[j].key, MASK_METADATA_SUFFIX)
                       /\ Len(Puts(s2[j].ops)) = 2

\* the content of a container
Container(bucket) ==
    [x \in {y \in DOMAIN store : y[1] = bucket} |-> store[x]]

\* the content a sequence of puts leaves in an empty container: the last
\* put of a key is the one that stays
Effect(p) ==
    [x \in {<<p[n].bucket, p[n].key>> : n \in 1..Len(p)} |->
        LET last == CHOOSE n \in 1..Len(p) :
                        /\ <<p[n].bucket, p[n].key>> = x
                        /\ \A m \in (n + 1)..Len(p) : <<p[m].bucket, p[m].key>> # x
        IN  [body |-> p[last].body, ctype |-> p[last].ctype]]

\* every record the invocations of stage 2 have taken is the record key
\* the invocation j took last
OnlyRuns2(j) ==
    \A h \in Inv2 : Range(s2[h].batch) \subseteq {s2[j].batch[s2[j].idx]}

\* the invocation j of stage 2 has run the whole body on its last record
Processed2(j) == JustFinished(s2[j]) /\ Len(Puts(s2[j].ops)) = 2

\* C4: stage 2 is idempotent.  When stage 2 has run on one record key
\* only, any number of times, in sequence or concurrently and completely
\* or not, and one run is complete, the output container holds exactly
\* what that one run wrote: the same keys with the same contents.
C4_Stage2Idempotent ==
    \A j \in Inv2 :
        (Processed2(j) /\ OnlyRuns2(j))
            => Container(OUTPUT_BUCKET) = Effect(Puts(s2[j].ops))

\* two complete runs of stage 2 on the same record key
C4_Witness ==
    \E j \in Inv2 :
        /\ Processed2(j)
        /\ OnlyRuns2(j)
        /\ Delivered(s2) >= 2
        /\ \A h \in Inv2 : s2[h].status \in {"idle", "done"}

\* the invocations of a stage handle one notification each, all the same
\* one, with the same response of the endpoint where they got one
SameNotification1(i) ==
    \A h \in Inv1 :
        /\ s1[h].len <= 1
        /\ Range(s1[h].batch) \subseteq Range(s1[i].batch)
        /\ s1[h].result \in {<<>>, s1[i].result}
SameNotification2(j) ==
    \A h \in Inv2 :
        /\ s2[h].len <= 1
        /\ Range(s2[h].batch) \subseteq Range(s2[j].batch)

\* an invocation raised after some but not all of the writes for the
\* notification of invocation i (stage 1) or j (stage 2)
PartlyWritten1(i) ==
    \E h \in Inv1 : /\ s1[h].status = "failed"
                   /\ s1[h].pc \in {"put_thumbnail_mask", "put_metadata"}
                   /\ s1[h].batch = s1[i].batch
PartlyWritten2(j) ==
    \E h \in Inv2 : /\ s2[h].status = "failed"
                   /\ s2[h].pc = "save_thumbnail"
                   /\ s2[h].batch = s2[j].batch

\* C5: partial completion is retryable in both stages.  When an invocation
\* raised after one or two of the three puts of stage 1 (after the first
\* of the two saves of stage 2) and an invocation on the same notification
\* with the same inputs ran to its end, the mask container (the output
\* container) holds exactly what the complete run wrote, as after a single
\* uninterrupted run.
C5_PartialCompletionRetryable ==
    /\ \A i \in Inv1 :
          (/\ s1[i].status = "done"
           /\ Len(Puts(s1[i].ops)) = 3
           /\ SameNotification1(i)
           /\ PartlyWritten1(i))
              => /\ Container(MASK_BUCKET) = Effect(Puts(s1[i].ops))
                 /\ Container(OUTPUT_BUCKET) = <<>>
    /\ \A j \in Inv2 :
          (/\ s2[j].status = "done"
           /\ Len(Puts(s2[j].ops)) = 2
           /\ SameNotification2(j)
           /\ PartlyWritten2(j))
              => Container(OUTPUT_BUCKET) = Effect(Puts(s2[j].ops))

\* in stage 1 a complete run followed a run that raised between its puts,
\* and in stage 2 a complete run followed, on the same record, a run that
\* raised between its saves
C5_Witness ==
    /\ past1.retried # {}
    /\ \E j \in Inv2 :
          /\ s2[j].status = "done"
          /\ Len(Puts(s2[j].ops)) = 2
          /\ s2[j].retries # {}
          /\ SameNotification2(j)
          /\ PartlyWritten2(j)

\* Every notification has been handled by an invocation that returned:
\* stage 1 is over and has returned for every uploaded object, stage 2 has
\* returned for every notification of the filtered subscription, and no
\* invocation is running.
Drained ==
    /\ past1.over
    /\ SourceObjects \subseteq past1.acked
    /\ Emitted2 \subseteq Acked2
    /\ \A j \in Inv2 : s2[j].status # "running"

\* the output container holds a processed image and a thumbnail made of
\* the source object x
HasOutputs(x) ==
    LET image == SourceImage(x[1], x[2])
        made == {DecodeImage(store[o].body) : o \in OutputContainer}
    IN  /\ \E r \in made : r[2] = image
        /\ \E r \in made : r[2][1] = "thumbnail" /\ r[2][2] = image

\* C6, as the spec states it: once every notification has been delivered
\* and handled with success, the output container holds a processed
\* output and a thumbnail output for every object uploaded.
C6_DrainedHasOutputs == Drained => \A x \in SourceObjects : HasOutputs(x)

\* what C7 says of the invocation j of stage 2 when it has handled a
\* matching notification: two puts, both to the output container as
\* image/png, the processed image at `first` and the thumbnail at `second`
Stage2WroteAt(j, first, second) ==
    LET p == Puts(s2[j].ops)
    IN  /\ Len(p) = 2
        /\ \A n \in 1..2 : /\ p[n].bucket = OUTPUT_BUCKET
                            /\ p[n].ctype = "image/png"
                            /\ IsImageBytes(p[n].body)
                            /\ Exists(OUTPUT_BUCKET, p[n].key)
                            /\ store[<<OUTPUT_BUCKET, p[n].key>>].ctype = "image/png"
        /\ <<p[1].key, p[2].key>> = <<first, second>>
        /\ DecodeImage(p[1].body)[2] = s2[j].original_image
        /\ DecodeImage(p[2].body)[2][1] = "thumbnail"

Matched2(j) ==
    JustFinished(s2[j]) /\ endswith(s2[j].key, MASK_METADATA_SUFFIX)

C7_State ==
    \A j \in Inv2 :
        Matched2(j) =>
            /\ s2[j].metadata = JsonLoads(store[<<MASK_BUCKET, s2[j].key>>].body)
            /\ Stage2WroteAt(j, PROCESSED_PREFIX \o s2[j].metadata.source_key,
                                THUMBNAIL_PREFIX \o s2[j].metadata.source_key)

\* C7, amended: for each matching notification whose record has source key
\* s, stage 2 writes exactly two objects, both to the output container and
\* both as image/png: the processed image at processed/<s> and the
\* thumbnail at thumbnails/<s>, s as it is, with no suffix added; no step
\* of stage 2 changes the mask container or the source container.
C7_OutputKeys ==
    [][/\ C7_State'
       /\ s2' # s2 => /\ Container(MASK_BUCKET)' = Container(MASK_BUCKET)
                      /\ \A b \in SourceBuckets : Container(b)' = Container(b)]_vars

\* C7, as the spec states it: the keys are processed/<s>.png and
\* thumbnails/<s>.png
C7_OutputKeysWithSuffix ==
    \A j \in Inv2 :
        Matched2(j) =>
            Stage2WroteAt(j,
                PROCESSED_PREFIX \o s2[j].metadata.source_key \o <<".", "p", "n", "g">>,
                THUMBNAIL_PREFIX \o s2[j].metadata.source_key \o <<".", "p", "n", "g">>)

\* stage 2 has handled a matching notification
C7_Witness ==
    \E j \in Inv2 : Matched2(j) /\ Len(Puts(s2[j].ops)) = 2

\* C9, as the spec states it: once a record is at a key of the mask
\* container, no step changes what it says of its source object (the
\* thumbnail size, which is the endpoint's answer, aside).
C9_RecordImmutable ==
    [][\A x \in Records :
         /\ x \in DOMAIN store'
         /\ IsJson(store'[x].body)
         /\ [f \in RequiredFields |-> JsonLoads(store'[x].body)[f]]
              = [f \in RequiredFields |-> JsonLoads(store[x].body)[f]]]_vars

\* the invocation raised at the call of the endpoint or at the reading of
\* its response
FailedAtInfer(s) == s.status = "failed" /\ s.pc = "infer"

\* the invocation is at a record, or has finished its last
AtRecord(s) == s.batch # <<>>

C10_State ==
    \A i \in Inv1 :
        AtRecord(s1[i]) =>
            LET r == s1[i].result
            IN  /\ FailedAtInfer(s1[i]) => Puts(s1[i].ops) = <<>>
                /\ r = <<>> => FailedAtInfer(s1[i])
                /\ (r # <<>> /\ {"mask_png", "thumbnail_mask_png"} \subseteq DOMAIN r)
                      <=> ~FailedAtInfer(s1[i])
                /\ (~FailedAtInfer(s1[i]) /\ "thumbnail_size" \notin DOMAIN r)
                      => /\ s1[i].thumbnail_size = <<512, 512>>
                         /\ JustFinished(s1[i]) =>
                               /\ Len(Puts(s1[i].ops)) = 3
                               /\ JsonLoads(Puts(s1[i].ops)[3].body).thumbnail_size
                                     = <<512, 512>>

\* C10, amended: if the call of the endpoint fails, or its response lacks
\* mask_png or thumbnail_mask_png, stage 1 ends the notification in failure
\* with none of the three puts, and the step leaves the mask container
\* unchanged.  A response that lacks thumbnail_size only is no failure: the
\* size is taken as [512, 512], the three objects are written and the
\* record holds thumbnail_size = [512, 512].
C10_FailureWritesNothing ==
    [][/\ C10_State'
       /\ \A i \in Inv1 :
             (FailedAtInfer(s1'[i]) /\ ~FailedAtInfer(s1[i]))
                => Container(MASK_BUCKET)' = Container(MASK_BUCKET)]_vars

\* C10, as the spec states it: a response that lacks any of the three
\* fields ends the notification in failure with no put
C10_AnyMissingFieldFails ==
    \A i \in Inv1 :
        (/\ AtRecord(s1[i])
         /\ s1[i].result # <<>>
         /\ DOMAIN s1[i].result # {"mask_png", "thumbnail_mask_png", "thumbnail_size"})
            => FailedAtInfer(s1[i]) /\ Puts(s1[i].ops) = <<>>

\* one invocation raised on a response without thumbnail_mask_png while
\* the mask container holds objects, and one has handled a response
\* without thumbnail_size to the end
C10_Witness ==
    /\ MaskContainer # {}
    /\ \E i \in Inv1 : /\ FailedAtInfer(s1[i])
                       /\ s1[i].result # <<>>
                       /\ "thumbnail_mask_png" \notin DOMAIN s1[i].result
    /\ \E i \in Inv1 : /\ JustFinished(s1[i])
                       /\ "thumbnail_size" \notin DOMAIN s1[i].result

\* the invocation of stage 2 raised at the reading of the record
FailedAtGet(s) == s.status = "failed" /\ s.pc = "get_metadata"

\* the invocation j of stage 2 is at a notification (or has finished its
\* last) whose key passes the filter and names a JSON object
AtJsonRecord2(j) ==
    /\ s2[j].batch # <<>>
    /\ endswith(s2[j].key, MASK_METADATA_SUFFIX)
    /\ Exists(MASK_BUCKET, s2[j].key)
    /\ IsJson(store[<<MASK_BUCKET, s2[j].key>>].body)

\* the fields of the record the invocation j is at
RecordFields2(j) == DOMAIN JsonLoads(store[<<MASK_BUCKET, s2[j].key>>].body)

C11_State ==
    \A j \in Inv2 :
        AtJsonRecord2(j) =>
            /\ ~({"source_bucket", "source_key", "mask_key", "thumbnail_mask_key"}
                     \subseteq RecordFields2(j))
                  => FailedAtGet(s2[j]) /\ s2[j].ops = <<>>
            /\ (/\ RecordFields2(j) = {"source_bucket", "source_key", "mask_key",
                                        "thumbnail_mask_key"}
                 /\ JustFinished(s2[j]))
                  => /\ Len(Puts(s2[j].ops)) = 2
                     /\ DecodeImage(Puts(s2[j].ops)[2].body)[2][3] = <<512, 512>>

\* C11, amended: if the record stage 2 reads lacks source_bucket,
\* source_key, mask_key or thumbnail_mask_key, the invocation raises at
\* that notification before any other call, writes no output, and the step
\* leaves the output container unchanged.  A record that lacks
\* thumbnail_size only is no failure: the thumbnail is made for
\* [512, 512] and both outputs are written.
C11_MalformedRecordFails ==
    [][/\ C11_State'
       /\ \A j \in Inv2 :
             (FailedAtGet(s2'[j]) /\ ~FailedAtGet(s2[j]))
                => Container(OUTPUT_BUCKET)' = Container(OUTPUT_BUCKET)]_vars

\* C11, as the spec states it: a record that lacks any of the five fields
\* ends the notification in failure with no output
C11_AnyMissingFieldFails ==
    \A j \in Inv2 :
        (/\ AtJsonRecord2(j)
         /\ RecordFields2(j) # {"source_bucket", "source_key", "mask_key",
                                "thumbnail_mask_key", "thumbnail_size"})
            => FailedAtGet(s2[j]) /\ Puts(s2[j].ops) = <<>>

\* one invocation raised on a record without mask_key while the output
\* container holds objects, and one has handled a record without
\* thumbnail_size to the end
C11_Witness ==
    /\ OutputContainer # {}
    /\ \E j \in Inv2 : /\ AtJsonRecord2(j)
                       /\ "mask_key" \notin RecordFields2(j)
                       /\ FailedAtGet(s2[j])
    /\ \E j \in Inv2 : /\ AtJsonRecord2(j)
                       /\ "thumbnail_size" \notin RecordFields2(j)
                       /\ JustFinished(s2[j])

\* C12: when an invocation of stage 2 takes a notification whose decoded
\* key does not end with the metadata suffix, the step makes no call of
\* the store (no read, no write: every container is unchanged), does not
\* raise, and leaves the invocation at the head of the loop for the next
\* notification of its event, or returned when there is none.
C12_SkipsNonMatching ==
    [][\A j \in Inv2 :
         (/\ Len(s2'[j].batch) = Len(s2[j].batch) + 1
          /\ ~endswith(s2'[j].key, MASK_METADATA_SUFFIX))
            => /\ store' = store
               /\ s2'[j].ops = <<>>
               /\ s2'[j].idx = s2[j].idx + 1
               /\ s2'[j].pc = "get_metadata"
               /\ s2'[j].status = IF s2'[j].idx = s2'[j].len THEN "done"
                                  ELSE "running"]_vars

\* an invocation skipped the first notification of its event, the key of
\* a mask, and handled the second, a record, to the end
C12_Witness ==
    \E j \in Inv2 :
        /\ Len(s2[j].batch) = 2
        /\ ~endswith(s2[j].batch[1], MASK_METADATA_SUFFIX)
        /\ s2[j].status = "done"
        /\ Len(Puts(s2[j].ops)) = 2

\* resolve_function_arn is in its loop or after it, before it raises
Polling == boot.pc \in {"lookup", "check", "sleep", "raise"}

\* resolve_function_arn raised
ResolveRaised ==
    /\ boot.pc = "raised"
    /\ boot.cause \notin {<<"put_bucket_notification_configuration">>}

\* the lookups of the running call, or of the last, that gave a non-empty
\* ARN
Successes ==
    {n \in 1..Len(boot.outcomes) : boot.outcomes[n] = "ok"}

\* C13: resolve_function_arn returns on the first successful lookup.  As
\* soon as a lookup answers with a non-empty ARN the function has returned
\* that ARN without raising, every lookup before it failed, and no step
\* makes another lookup in that call; and it returns no other way.
C13_ReturnsFirstSuccess ==
    /\ [](/\ Successes # {}
              => /\ Successes = {Len(boot.outcomes)}
                 /\ ~Polling
                 /\ ~ResolveRaised
                 /\ boot.function_arn = Arn(boot.fn, Len(boot.outcomes))
          /\ boot.pc = "resolved" => Successes # {})
    /\ [][Successes # {} => boot'.outcomes \in {boot.outcomes, <<>>}]_vars

\* the lookup failed twice, in two ways, and succeeded the third time,
\* with the clock before the deadline
C13_Witness ==
    /\ boot.pc = "resolved"
    /\ boot.outcomes = <<"client_error", "empty_arn", "ok">>
    /\ boot.now < boot.deadline

\* the failure of the n-th lookup as the loop keeps it
FailureOf(n) ==
    IF boot.outcomes[n] = "client_error" THEN <<"client_error", n>>
    ELSE <<"missing_arn", n>>

\* C14: when every lookup fails, resolve_function_arn polls while the
\* clock is before the deadline at the check after a lookup: it sleeps only
\* when no lookup started at or past the deadline, leaves the loop after
\* the first lookup whose check finds the clock at or past the deadline,
\* and raises with the failure of its last lookup as the cause; it returns
\* no value.
C14_RaisesLastFailure ==
    /\ boot.pc = "sleep" => boot.late = 0 /\ boot.now < boot.deadline
    /\ (Polling /\ Successes = {}) => boot.function_arn = None
    /\ (boot.pc = "raise" \/ ResolveRaised)
          => /\ Len(boot.outcomes) >= 1
             /\ Successes = {}
             /\ boot.function_arn = None
             /\ boot.now >= boot.deadline
             /\ boot.late <= 1
             /\ boot.last_error = FailureOf(Len(boot.outcomes))
             /\ ResolveRaised => boot.cause = FailureOf(Len(boot.outcomes))

\* the function raised after three lookups that failed in different ways
C14_Witness ==
    /\ ResolveRaised
    /\ boot.outcomes = <<"no_arn", "client_error", "empty_arn">>
    /\ boot.cause = <<"missing_arn", 3>>

\* C17: ensure_permission passes over nothing but the conflict of a
\* permission that is registered already: every other failure of
\* add_permission reaches the caller, so the script never goes on after one.
C17_OnlyConflictSuppressed == boot.suppressed \subseteq {"conflict"}

\* the largest number of lookups of a call: one, and one more for each
\* tenth of a second of a positive wait_timeout
MaxAttempts ==
    1 + (IF boot.wait_timeout > 0 THEN boot.wait_timeout ELSE 0)

\* C20: resolve_function_arn makes at least one lookup and terminates.  For
\* every wait_timeout and poll_interval, zero and negative ones included,
\* a call that has left its first lookup has made one or more lookups and
\* never more than MaxAttempts, and every call that is polling comes to
\* return an ARN or to raise.
C20_Terminates ==
    /\ []((boot.pc \in {"check", "sleep", "raise", "resolved"}
               \/ ResolveRaised)
            => /\ Len(boot.outcomes) >= 1
               /\ Len(boot.outcomes) <= MaxAttempts)
    /\ Polling ~> (boot.pc \in {"resolved", "raised"})

\* a call with a negative poll_interval and a positive wait_timeout that
\* slept, looked up again and raised
C20_Witness ==
    /\ ResolveRaised
    /\ boot.poll_interval < 0
    /\ boot.wait_timeout > 0
    /\ Len(boot.outcomes) >= 2

\* the three keys stage 1 derives from a source key
DerivedKeys(key) ==
    {_mask_key(MASK_PREFIX, key, MASK_SUFFIX),
     _mask_key(THUMBNAIL_MASK_PREFIX, key, MASK_SUFFIX),
     _mask_key(MASK_PREFIX, key, METADATA_SUFFIX)}

\* what C16 says of an invocation of stage 1 that has taken the
\* notification of the object `object`, whose key the service sent as raw
UsesDecoded1(s, object, raw) ==
    /\ s.bucket = object[1]
    /\ s.key = object[2]
    /\ \A n \in 1..Len(s.ops) :
          LET c == s.ops[n]
          IN  /\ c.op \in {"invoke_endpoint", "put_object"}
              /\ c.op = "invoke_endpoint"
                    => c.bucket = object[1] /\ c.key = object[2]
              /\ c.op = "put_object" => c.key \in DerivedKeys(object[2])
              /\ raw # object[2]
                    => c.key # raw /\ c.key \notin DerivedKeys(raw)

\* the same of an invocation of stage 2 that has taken the notification of
\* the object of the mask container at `key`
UsesDecoded2(s, key, raw) ==
    /\ s.key = key
    /\ \A n \in 1..Len(s.ops) :
          LET c == s.ops[n]
          IN  /\ c.op \in {"get_object", "put_object"}
              /\ n = 1 => /\ c.op = "get_object"
                          /\ c.bucket = MASK_BUCKET
                          /\ c.key = key
              /\ c.op = "get_object" => Exists(c.bucket, c.key)
              /\ raw # key => c.key # raw

\* C16: both handlers decode the key of the notification before they use
\* it.  The key an invocation works with is the key of the object the
\* notification is about; the inference request names that key, every put
\* of stage 1 goes to a key derived from it, the first get of stage 2 reads
\* the object at it and every get reads an object that is there; where the
\* key as sent differs from the decoded key, no call is given the key as
\* sent or a key derived from it.
C16_DecodedKeyUsed ==
    /\ \A i \in Inv1 :
          Len(s1[i].batch) >= 1 =>
              LET object == s1[i].batch[Len(s1[i].batch)]
              IN  UsesDecoded1(s1[i], object, quote_plus(object[2]))
    /\ \A j \in Inv2 :
          Len(s2[j].batch) >= 1 =>
              LET key == s2[j].batch[Len(s2[j].batch)]
              IN  UsesDecoded2(s2[j], key, quote_plus(key))

\* stage 2 has handled to the end the notification of a record that stage
\* 1 wrote for a notification, both keys sent with an escaped "+" and with
\* a "+" for a space
C16_Witness ==
    \E j \in Inv2 :
        /\ Matched2(j)
        /\ Len(s2[j].ops) = 6
        /\ Contains(s2[j].key, <<"+", " ">>)
        /\ Contains(s2[j].metadata.source_key, <<"+", " ">>)
        /\ quote_plus(s2[j].metadata.source_key) = <<"%", "2", "B", "+">>

\* C18, as the spec states it: none of the keys stage 1 writes to the mask
\* container holds "..", whatever the decoded source key.
C18_NoTraversalInDerivedKeys ==
    \A i \in Inv1 :
        \A n \in 1..Len(s1[i].ops) :
            s1[i].ops[n].op = "put_object"
                => ~Contains(s1[i].ops[n].key, <<".", ".">>)

\* the keys an invocation of stage 1 has put for the record it took last
PutKeys(s) == {s.ops[n].key : n \in {m \in 1..Len(s.ops) : s.ops[m].op = "put_object"}}

\* two invocations of stage 1 that took different source objects last have
\* put no key in common
DisjointPutKeys ==
    \A i, h \in Inv1 :
        (/\ Len(s1[i].batch) >= 1
         /\ Len(s1[h].batch) >= 1
         /\ s1[i].batch[Len(s1[i].batch)] # s1[h].batch[Len(s1[h].batch)])
            => PutKeys(s1[i]) \cap PutKeys(s1[h]) = {}

\* the masks an invocation of stage 2 has loaded were generated for the
\* source object whose image it has loaded
MasksOfTheSameSource ==
    \A j \in Inv2 :
        LET image == s2[j].original_image
        IN  /\ (image # <<>> /\ s2[j].mask_image # <<>>)
                  => s2[j].mask_image = <<"mask", image[2], image[3]>>
            /\ (image # <<>> /\ s2[j].thumbnail_mask_image # <<>>)
                  => s2[j].thumbnail_mask_image
                         = <<"thumbnail_mask", image[2], image[3]>>

\* C19, as the spec states it: the keys stage 1 writes for two different
\* source objects are disjoint, and stage 2 composes a source image only
\* with the masks that were generated for that source object.
C19_NoCrossObjectInterference == DisjointPutKeys /\ MasksOfTheSameSource

\* round(x / den) for natural numbers, halves up
Round(x, den) == (2 * x + den) \div (2 * den)

\* _apply_mask has been called
Applied == img.result # <<>>

\* C15, as the spec states it: the result has the dimensions of the image
\* and the R, G and B of every pixel, and the alpha of every pixel is
\* round(alpha * M / 255).
C15_AlphaRounded ==
    Applied =>
        /\ Len(img.result) = Len(img.image)
        /\ \A n \in 1..Len(img.image) :
              /\ SubSeq(img.result[n], 1, 3) = SubSeq(img.image[n], 1, 3)
              /\ img.result[n][4]
                    = Round(img.image[n][4] * img.mask[n], MaxPixel)

\* what _apply_mask does keep: dimensions and colours, an alpha
\* within one below the rounded value and never above it, 0 under the mask
\* value 0 and the alpha of the image under the mask value 255
MaskedAlphaTruncated ==
    Applied =>
        /\ Len(img.result) = Len(img.image)
        /\ \A n \in 1..Len(img.image) :
              LET a == img.image[n][4]
                  m == img.mask[n]
                  out == img.result[n][4]
              IN  /\ SubSeq(img.result[n], 1, 3) = SubSeq(img.image[n], 1, 3)
                  /\ out \in 0..MaxPixel
                  /\ out \in {Round(a * m, MaxPixel) - 1, Round(a * m, MaxPixel)}
                  /\ m = 0 => out = 0
                  /\ m = MaxPixel => out = a

====
